---- MODULE Spec2Model ----
(***************************************************************************)
(* A model of the HTTP/1.x connection engine of src/httpconn.c: the        *)
(* per-connection state machine, the framing decision, the body and chunk  *)
(* readers, message begin/end, the transport error mapping, read           *)
(* pause/resume, and the write side: first lines, body writes with their   *)
(* backlog limit, and the write-drain callback.                            *)
(*                                                                         *)
(* The transport input is a sequence of symbols.  A symbol is a record     *)
(* [k, n, v]: a line terminator (CRLF), one byte, the text of a first      *)
(* line (its space-separated words) or the text of one header line (name   *)
(* and value).  A line is the symbols before a terminator, so an           *)
(* incomplete line is a non-empty input with no terminator in it.          *)
(***************************************************************************)
EXTENDS Integers, Sequences, FiniteSets, TLC

\* ------------------------------------------------------------------ bounds
\* messages that may follow the first one on the wire
MaxFollow == 1
\* largest Content-Length and largest chunk size the peer sends
MaxLen == 2
\* write operations the owner performs on one connection
MaxWrites == 2

\* line 29
max_write_backlog == 50 * 1024

\* ----------------------------------------------------------------- symbols
NL == [k |-> "NL", n |-> "", v |-> <<>>]
Ch(x) == [k |-> "c", n |-> x, v |-> <<>>]
FL(words) == [k |-> "FL", n |-> "", v |-> words]
H(name, val) == [k |-> "H", n |-> name, v |-> val]

\* a pointer is NULL or holds one value
NULL == <<>>
Ptr(x) == <<x>>
Deref(p) == p[1]

Min(a, b) == IF a < b THEN a ELSE b

\* evutil_ascii_strcasecmp(a, b) == 0, over the words the peer sends
ToLower(w) ==
  CASE w = "Close" -> "close"
    [] w = "CLOSE" -> "close"
    [] w = "Chunked" -> "chunked"
    [] w = "Content-Length" -> "content-length"
    [] w = "Transfer-Encoding" -> "transfer-encoding"
    [] w = "Connection" -> "connection"
    [] w = "GET" -> "get"
    [] w = "HEAD" -> "head"
    [] w = "POST" -> "post"
    [] w = "PUT" -> "put"
    [] w = "CONNECT" -> "connect"
    [] OTHER -> w
strcaseeq(a, b) == ToLower(a) = ToLower(b)

Digits == <<"0", "1", "2", "3", "4", "5", "6", "7", "8", "9",
            "a", "b", "c", "d", "e", "f">>
DigitVal(d, base) ==
  IF \E i \in 1..base : Digits[i] = d
  THEN (CHOOSE i \in 1..base : Digits[i] = d) - 1
  ELSE -1

RECURSIVE get_int_acc(_, _, _)
get_int_acc(text, base, acc) ==
  IF text = <<>> THEN acc
  ELSE IF DigitVal(Head(text), base) < 0 THEN -1
  ELSE get_int_acc(Tail(text), base, acc * base + DigitVal(Head(text), base))

\* get_int(s, base): the non-negative integer s spells in that base, or -1
get_int(text, base) ==
  IF text = <<>> THEN -1 ELSE get_int_acc(text, base, 0)

\* the characters of a line, or <<"?">> when it holds something that is no byte
LineText(line) ==
  IF \A i \in 1..Len(line) : line[i].k = "c"
  THEN [i \in 1..Len(line) |-> line[i].n]
  ELSE <<"?">>

\* evbuffer_readln(inbuf, NULL, EVBUFFER_EOL_CRLF)
HasLine(buf) == \E i \in 1..Len(buf) : buf[i] = NL
EolAt(buf) == CHOOSE i \in 1..Len(buf) : buf[i] = NL /\ \A j \in 1..(i - 1) : buf[j] # NL
ReadLine(buf) == SubSeq(buf, 1, EolAt(buf) - 1)
AfterLine(buf) == SubSeq(buf, EolAt(buf) + 1, Len(buf))

\* the name a byte is logged under when it is handed to the owner
SymName(x) == IF x.k = "c" THEN x.n ELSE x.k
Bytes(buf) == [i \in 1..Len(buf) |-> SymName(buf[i])]

\* ------------------------------------------------------------------- state
VARIABLES
  state, vers, te, type, has_body, read_paused, msg_complete_on_eof,
  persistent, data_remaining, firstline, headers,
  is_choaked,   \* struct http_conn
  enabled,      \* the events enabled on conn->bev
  inbuf,        \* bufferevent_get_input(conn->bev)
  outlen,       \* evbuffer_get_length(bufferevent_get_output(conn->bev))
  wm_low,       \* the low write watermark of conn->bev
  written,      \* the last write operation: what it was given and what it
                \* appended to the output or returned
  nwrites,      \* write operations performed so far
  wire,         \* what the peer has still to send
  rcvd,         \* everything the transport has put into inbuf so far
  pc,           \* "wait": in the event loop; "enter": process_inbuf called
                \* by http_readcb; "resume": process_inbuf called by
                \* http_conn_start_reading; "again": its loop condition held
  log,          \* the owner callbacks made so far, each with the state it saw
  msgno,        \* how many times begin_message has run
  fatal         \* "none", or the assertion or log_fatal that stopped the program

vars == <<state, vers, te, type, has_body, read_paused, msg_complete_on_eof,
          persistent, data_remaining, firstline, headers, is_choaked,
          enabled, inbuf, outlen, wm_low, written, nwrites,
          wire, rcvd, pc, log, msgno, fatal>>

\* the connection and its transport as one record, for the operators below
Conn ==
  [state |-> state, vers |-> vers, te |-> te, type |-> type,
   has_body |-> has_body, read_paused |-> read_paused,
   msg_complete_on_eof |-> msg_complete_on_eof, persistent |-> persistent,
   data_remaining |-> data_remaining, firstline |-> firstline,
   headers |-> headers, is_choaked |-> is_choaked, enabled |-> enabled,
   inbuf |-> inbuf, outlen |-> outlen, wm_low |-> wm_low,
   written |-> written,
   log |-> log, msgno |-> msgno, fatal |-> fatal]

Becomes(s) ==
  /\ state' = s.state
  /\ vers' = s.vers
  /\ te' = s.te
  /\ type' = s.type
  /\ has_body' = s.has_body
  /\ read_paused' = s.read_paused
  /\ msg_complete_on_eof' = s.msg_complete_on_eof
  /\ persistent' = s.persistent
  /\ data_remaining' = s.data_remaining
  /\ firstline' = s.firstline
  /\ headers' = s.headers
  /\ is_choaked' = s.is_choaked
  /\ enabled' = s.enabled
  /\ inbuf' = s.inbuf
  /\ outlen' = s.outlen
  /\ wm_low' = s.wm_low
  /\ written' = s.written
  /\ log' = s.log
  /\ msgno' = s.msgno
  /\ fatal' = s.fatal

\* assert(...) failing, or log_fatal(...)
Fatal(s, why) == [s EXCEPT !.fatal = why]

\* the input buffer holds the first line and the whole header block of a
\* further message
NextBuffered(buf) ==
  /\ buf # <<>> /\ buf[1].k = "FL"
  /\ \E i \in 2..Len(buf) : buf[i] = NL /\ buf[i - 1] = NL

\* METHODn(conn, slot, ...): the owner sees the connection as it is now
Event(s, cb, arg, m, hs) ==
  [cb |-> cb, arg |-> arg, msg |-> m, st |-> s.state, en |-> s.enabled,
   pers |-> s.persistent, eof |-> s.msg_complete_on_eof,
   body |-> s.has_body, te |-> s.te, rem |-> s.data_remaining, hdrs |-> hs,
   next |-> cb = "on_msg_complete" /\ NextBuffered(s.inbuf)]

Call(s, cb, arg, m) ==
  [s EXCEPT !.log = Append(@, Event(s, cb, arg, m, <<>>))]

\* the log with one more callback; successive on_read_body calls of one
\* message are kept as one entry holding the bytes of all of them in order
Logged(lg, e) ==
  IF lg # <<>> /\ e.cb = "on_read_body" /\ lg[Len(lg)].cb = "on_read_body"
     /\ lg[Len(lg)].msg = e.msg
  THEN [lg EXCEPT ![Len(lg)].arg = @ \o e.arg]
  ELSE Append(lg, e)

http_conn_stop_reading(s) ==
  [s EXCEPT !.enabled = @ \ {"EV_READ"}, !.read_paused = TRUE]

\* a callback that hands the owner a message (with its headers hs) or body
\* bytes; the owner may call http_conn_stop_reading from inside it
Deliver(s, cb, arg, hs, pause) ==
  LET s1 == [s EXCEPT !.log = Logged(@, Event(s, cb, arg, s.msgno, hs))]
  IN IF pause THEN http_conn_stop_reading(s1) ELSE s1

begin_message(s) ==
  IF s.headers # NULL \/ s.firstline # NULL THEN Fatal(s, "assert:140")
  ELSE IF s.read_paused THEN Fatal(s, "assert:141")
  ELSE [s EXCEPT !.headers = Ptr(<<>>), !.state = "HTTP_STATE_IDLE",
                 !.enabled = {"EV_READ", "EV_WRITE"}, !.msgno = @ + 1]

\* lines 156-160: a failed or non-persistent message mangles the connection
\* end_message with the test of line 156 always taken
EndTransition_NeverPersist(s, err) ==
  [s EXCEPT !.state = "HTTP_STATE_MANGLED", !.enabled = {}]

EndTransition(s, err) ==
  IF err # "ERROR_NONE" \/ ~s.persistent
  THEN [s EXCEPT !.state = "HTTP_STATE_MANGLED", !.enabled = {}]
  ELSE begin_message(s)

\* lines 162-165: the terminal callback of message m
EndNotify(s, err, m) ==
  IF s.fatal # "none" THEN s
  ELSE IF err # "ERROR_NONE" THEN Call(s, "on_error", <<err>>, m)
  ELSE Call(s, "on_msg_complete", <<>>, m)

\* firstline is freed but the pointer is kept; headers_clear empties the list
end_message(s, err) ==
  EndNotify(EndTransition(
              [s EXCEPT !.headers = IF @ = NULL THEN NULL ELSE Ptr(<<>>)], err),
            err, s.msgno)

method_from_string(w) ==
  IF strcaseeq(w, "GET") THEN Ptr("METH_GET")
  ELSE IF strcaseeq(w, "HEAD") THEN Ptr("METH_HEAD")
  ELSE IF strcaseeq(w, "POST") THEN Ptr("METH_POST")
  ELSE IF strcaseeq(w, "PUT") THEN Ptr("METH_PUT")
  ELSE IF strcaseeq(w, "CONNECT") THEN Ptr("METH_CONNECT")
  ELSE NULL

version_from_string(w) ==
  CASE w = "HTTP/1.0" -> Ptr("HTTP_10")
    [] w = "http/1.0" -> Ptr("HTTP_10")
    [] w = "HTTP/1.1" -> Ptr("HTTP_11")
    [] w = "http/1.1" -> Ptr("HTTP_11")
    [] OTHER -> NULL

\* url_tokenize(url->token): NULL for a target that is no URL
url_tokenize(w) == IF w = "" THEN NULL ELSE Ptr(w)

\* atoi(code->token)
atoi(w) ==
  CASE w = "99" -> 99
    [] w = "100" -> 100
    [] w = "200" -> 200
    [] w = "204" -> 204
    [] w = "205" -> 205
    [] w = "304" -> 304
    [] w = "404" -> 404
    [] w = "1000" -> 1000
    [] OTHER -> 0

\* tokenize(conn->firstline, " ", n, &tokens): the words of the line
tokenize(line) ==
  IF Len(line) = 1 /\ line[1].k = "FL" THEN line[1].v ELSE <<>>

build_request(s) ==
  LET tokens == tokenize(Deref(s.firstline)) IN
  IF Len(tokens) # 3 THEN NULL
  ELSE IF url_tokenize(tokens[2]) = NULL
          \/ method_from_string(tokens[1]) = NULL
          \/ version_from_string(tokens[3]) = NULL THEN NULL
  ELSE Ptr([meth |-> Deref(method_from_string(tokens[1])),
            vers |-> Deref(version_from_string(tokens[3])),
            code |-> 0,
            headers |-> Deref(s.headers),
            words |-> <<Deref(method_from_string(tokens[1])), tokens[2],
                        Deref(version_from_string(tokens[3]))>>])

build_response(s) ==
  LET tokens == tokenize(Deref(s.firstline)) IN
  IF Len(tokens) # 3 THEN NULL
  ELSE IF version_from_string(tokens[1]) = NULL
          \/ atoi(tokens[2]) < 100 \/ atoi(tokens[2]) > 999 THEN NULL
  ELSE Ptr([meth |-> "",
            vers |-> Deref(version_from_string(tokens[1])),
            code |-> atoi(tokens[2]),
            headers |-> Deref(s.headers),
            words |-> <<Deref(version_from_string(tokens[1])), tokens[2],
                        tokens[3]>>])

\* headers_find(headers, name): the value of the first header of that name
headers_find(hs, name) ==
  IF \E i \in 1..Len(hs) : strcaseeq(hs[i].n, name)
  THEN Ptr(hs[CHOOSE i \in 1..Len(hs) :
                  /\ strcaseeq(hs[i].n, name)
                  /\ \A j \in 1..(i - 1) : ~strcaseeq(hs[j].n, name)].v)
  ELSE NULL

\* a header value as one word
Word(val) == IF Len(val) = 1 THEN val[1] ELSE "?"

\* headers_load(headers, inbuf): 1 at the blank line, 0 when the input holds
\* no further complete line, -1 at a line that is no header
RECURSIVE headers_load(_, _)
headers_load(hs, buf) ==
  IF ~HasLine(buf) THEN [rc |-> 0, headers |-> hs, inbuf |-> buf]
  ELSE IF ReadLine(buf) = <<>>
    THEN [rc |-> 1, headers |-> hs, inbuf |-> AfterLine(buf)]
  ELSE IF Len(ReadLine(buf)) = 1 /\ ReadLine(buf)[1].k = "H"
    THEN headers_load(Append(hs, ReadLine(buf)[1]), AfterLine(buf))
  ELSE [rc |-> -1, headers |-> hs, inbuf |-> AfterLine(buf)]

\* lines 353-370: the defaults and has_body by role
FramingDefaults(s, msg) ==
  [s EXCEPT !.te = "TE_IDENTITY",
            !.msg_complete_on_eof = FALSE,
            !.data_remaining = -1,
            !.has_body =
              IF s.type = "HTTP_CLIENT"
              THEN msg.meth \in {"METH_POST", "METH_PUT"}
              ELSE ~((msg.code >= 100 /\ msg.code < 200)
                     \/ msg.code = 204 \/ msg.code = 205 \/ msg.code = 304)]

\* lines 374-396: Transfer-Encoding and Content-Length
FramingHeaders(s) ==
  LET hs == Deref(s.headers)
      tev == headers_find(hs, "transfer-encoding")
      clv == headers_find(hs, "content-length")
      s1 == IF tev # NULL /\ strcaseeq(Word(Deref(tev)), "chunked")
            THEN [s EXCEPT !.te = "TE_CHUNKED"] ELSE s
      iv == get_int(Deref(clv), 10)
      s2 == IF iv < 0 THEN s1 ELSE [s1 EXCEPT !.data_remaining = iv]
  IN IF s1.te = "TE_CHUNKED" THEN s1
     ELSE IF clv = NULL THEN [s1 EXCEPT !.msg_complete_on_eof = TRUE]
     ELSE IF s2.data_remaining = 0 THEN [s2 EXCEPT !.has_body = FALSE]
     ELSE s2

\* lines 406-426: persistence
Persistence(s, msg) ==
  LET p1 == ~s.msg_complete_on_eof /\ msg.vers = "HTTP_11"
      p2 == IF s.vers # "HTTP_UNKNOWN" /\ s.vers # msg.vers THEN FALSE ELSE p1
      cv == headers_find(Deref(s.headers), "connection")
      p3 == IF p2 /\ cv # NULL /\ ~strcaseeq(Word(Deref(cv)), "close")
            THEN FALSE ELSE p2
  IN [s EXCEPT !.vers = msg.vers, !.persistent = p3]

\* lines 398-426: a request with a body of unknown length is reported and
\* the function returns; otherwise persistence is decided
FramingCheck(s, msg, had_body) ==
  IF had_body /\ s.type = "HTTP_CLIENT" /\ s.data_remaining < 0
     /\ s.te # "TE_CHUNKED"
  THEN Call(s, "on_error", <<"ERROR_CLIENT_POST_WITHOUT_LENGTH">>, s.msgno)
  ELSE Persistence(s, msg)

FramingBody(s, msg) ==
  FramingCheck(IF s.has_body THEN FramingHeaders(s) ELSE s, msg, s.has_body)

check_headers(s, msg) == FramingBody(FramingDefaults(s, msg), msg)

\* lines 478-481
AfterDelivery(s) ==
  IF ~s.has_body THEN end_message(s, "ERROR_NONE")
  ELSE [s EXCEPT !.state = "HTTP_STATE_READ_BODY"]

\* lines 463-481: s has the first line released and msg is what was built
HeadersDone(s, msg, pause) ==
  IF msg = NULL THEN end_message(s, "ERROR_HEADER_PARSE_FAILED")
  ELSE AfterDelivery(
         Deliver([check_headers(s, Deref(msg)) EXCEPT !.headers = NULL],
                 IF s.type = "HTTP_CLIENT" THEN "on_client_request"
                 ELSE "on_server_response", Deref(msg).words,
                 Deref(msg).headers, pause))

\* lines 439-461: r is what headers_load returned
HeadersLoaded(s, r, pause) ==
  IF r.rc = -1 THEN end_message(s, "ERROR_HEADER_PARSE_FAILED")
  ELSE IF r.rc = 0 THEN s
  ELSE HeadersDone([s EXCEPT !.firstline = NULL],
                   IF s.type = "HTTP_CLIENT" THEN build_request(s)
                   ELSE build_response(s), pause)

LoadInto(s, r) == [s EXCEPT !.headers = Ptr(r.headers), !.inbuf = r.inbuf]

read_headers(s, pause) ==
  LET r == headers_load(Deref(s.headers), s.inbuf)
  IN HeadersLoaded(LoadInto(s, r), r, pause)

\* 1 with the length read, 0 when no complete line is left, -1 on a bad line;
\* empty lines are skipped
RECURSIVE parse_chunk_len(_)
parse_chunk_len(buf) ==
  IF ~HasLine(buf) THEN [rc |-> 0, len |-> -1, inbuf |-> buf]
  ELSE IF ReadLine(buf) = <<>> THEN parse_chunk_len(AfterLine(buf))
  ELSE IF get_int(LineText(ReadLine(buf)), 16) < 0
    THEN [rc |-> -1, len |-> -1, inbuf |-> AfterLine(buf)]
  ELSE [rc |-> 1, len |-> get_int(LineText(ReadLine(buf)), 16),
        inbuf |-> AfterLine(buf)]

\* read_chunk without lines 286-287: a bad chunk-size line is passed over
read_chunk_IgnoresBadLine(s, pause) ==
  IF s.data_remaining < 0 THEN
    LET r == parse_chunk_len(s.inbuf)
    IN [s EXCEPT !.inbuf = r.inbuf,
                 !.data_remaining = IF r.rc = 1 THEN r.len ELSE @]
  ELSE IF s.data_remaining = 0 THEN
    IF HasLine(s.inbuf)
    THEN end_message([s EXCEPT !.inbuf = AfterLine(s.inbuf)], "ERROR_NONE")
    ELSE s
  ELSE
    LET len == Min(Len(s.inbuf), s.data_remaining)
        s1 == [s EXCEPT !.inbuf = SubSeq(s.inbuf, len + 1, Len(s.inbuf))]
        s2 == Deliver(s1, "on_read_body", Bytes(SubSeq(s.inbuf, 1, len)), <<>>,
                      pause)
    IN [s2 EXCEPT !.data_remaining =
                    IF s.data_remaining - len = 0 THEN -1
                    ELSE s.data_remaining - len]

\* read_chunk without lines 308-309: the count of a chunk stays at zero when
\* its last byte has been handed over
read_chunk_NoReset(s, pause) ==
  IF s.data_remaining < 0 THEN
    LET r == parse_chunk_len(s.inbuf)
        s1 == [s EXCEPT !.inbuf = r.inbuf,
                        !.data_remaining = IF r.rc = 1 THEN r.len ELSE @]
    IN IF r.rc < 0 THEN end_message(s1, "ERROR_CHUNK_PARSE_FAILED") ELSE s1
  ELSE IF s.data_remaining = 0 THEN
    IF HasLine(s.inbuf)
    THEN end_message([s EXCEPT !.inbuf = AfterLine(s.inbuf)], "ERROR_NONE")
    ELSE s
  ELSE
    LET len == Min(Len(s.inbuf), s.data_remaining)
        s1 == [s EXCEPT !.inbuf = SubSeq(s.inbuf, len + 1, Len(s.inbuf))]
        s2 == Deliver(s1, "on_read_body", Bytes(SubSeq(s.inbuf, 1, len)), <<>>,
                      pause)
    IN [s2 EXCEPT !.data_remaining = s.data_remaining - len]

\* the owner drains inbuf_processed in on_read_body, so each call hands over
\* exactly the bytes moved
read_chunk(s, pause) ==
  IF s.data_remaining < 0 THEN
    LET r == parse_chunk_len(s.inbuf)
        s1 == [s EXCEPT !.inbuf = r.inbuf,
                        !.data_remaining = IF r.rc = 1 THEN r.len ELSE @]
    IN IF r.rc < 0 THEN end_message(s1, "ERROR_CHUNK_PARSE_FAILED") ELSE s1
  ELSE IF s.data_remaining = 0 THEN
    IF HasLine(s.inbuf)
    THEN end_message([s EXCEPT !.inbuf = AfterLine(s.inbuf)], "ERROR_NONE")
    ELSE s
  ELSE
    LET len == Min(Len(s.inbuf), s.data_remaining)
        s1 == [s EXCEPT !.inbuf = SubSeq(s.inbuf, len + 1, Len(s.inbuf))]
        s2 == Deliver(s1, "on_read_body", Bytes(SubSeq(s.inbuf, 1, len)), <<>>,
                      pause)
    IN [s2 EXCEPT !.data_remaining =
                    IF s.data_remaining - len = 0 THEN -1
                    ELSE s.data_remaining - len]

read_body(s, pause) ==
  IF ~s.has_body THEN Fatal(s, "assert:319")
  ELSE IF s.te = "TE_CHUNKED" THEN read_chunk(s, pause)
  ELSE IF Len(s.inbuf) = 0 THEN s
  ELSE
    LET len == IF s.data_remaining >= 0 /\ Len(s.inbuf) > s.data_remaining
               THEN s.data_remaining ELSE Len(s.inbuf)
        s1 == [s EXCEPT !.inbuf = SubSeq(s.inbuf, len + 1, Len(s.inbuf))]
        s2 == Deliver(s1, "on_read_body", Bytes(SubSeq(s.inbuf, 1, len)), <<>>,
                      pause)
        s3 == [s2 EXCEPT !.data_remaining = @ - len]
    IN IF s3.data_remaining = 0 THEN end_message(s3, "ERROR_NONE") ELSE s3

process_one_message(s, pause) ==
  IF s.state \in {"HTTP_STATE_IDLE", "HTTP_STATE_READ_FIRSTLINE"} THEN
    IF s.firstline # NULL THEN Fatal(s, "assert:541")
    ELSE IF HasLine(s.inbuf)
      THEN [s EXCEPT !.state = "HTTP_STATE_READ_HEADERS",
                     !.firstline = Ptr(ReadLine(s.inbuf)),
                     !.inbuf = AfterLine(s.inbuf)]
    ELSE [s EXCEPT !.state = "HTTP_STATE_READ_FIRSTLINE"]
  ELSE IF s.state = "HTTP_STATE_READ_HEADERS" THEN read_headers(s, pause)
  ELSE IF s.state = "HTTP_STATE_READ_BODY" THEN read_body(s, pause)
  ELSE Fatal(s, "log_fatal:553")

\* the while condition of process_inbuf without its test of read_paused
LoopAgain_IgnoresPause(s) == Len(s.inbuf) > 0

\* the while condition of process_inbuf
LoopAgain(s) == ~s.read_paused /\ Len(s.inbuf) > 0

\* http_errorcb without the test of BEV_EVENT_EOF at line 515
http_errorcb_AnyEventCompletes(s, what) ==
  IF s.state = "HTTP_STATE_CONNECTING" THEN
    IF "BEV_EVENT_CONNECTED" \in what
    THEN LET s1 == begin_message(s)
         IN IF s1.fatal # "none" THEN s1
            ELSE Call(s1, "on_connect", <<>>, s1.msgno)
    ELSE Call([s EXCEPT !.state = "HTTP_STATE_MANGLED"], "on_error",
              <<"ERROR_CONNECT_FAILED">>, s.msgno)
  ELSE IF "BEV_EVENT_CONNECTED" \in what THEN Fatal(s, "assert:501")
  ELSE
    LET s1 == [s EXCEPT !.state = "HTTP_STATE_MANGLED"] IN
    IF "BEV_EVENT_WRITING" \in what THEN end_message(s1, "ERROR_WRITE_FAILED")
    ELSE IF s.state = "HTTP_STATE_IDLE"
      THEN end_message(s1, "ERROR_IDLE_CONN_TIMEDOUT")
    ELSE IF s.state \in {"HTTP_STATE_READ_FIRSTLINE", "HTTP_STATE_READ_HEADERS"}
      THEN end_message(s1, "ERROR_INCOMPLETE_HEADERS")
    ELSE IF s.state = "HTTP_STATE_READ_BODY"
      THEN IF s.msg_complete_on_eof
           THEN end_message(s1, "ERROR_NONE")
           ELSE end_message(s1, "ERROR_INCOMPLETE_BODY")
    ELSE Fatal(s1, "log_fatal:526")

http_errorcb(s, what) ==
  IF s.state = "HTTP_STATE_CONNECTING" THEN
    IF "BEV_EVENT_CONNECTED" \in what
    THEN LET s1 == begin_message(s)
         IN IF s1.fatal # "none" THEN s1
            ELSE Call(s1, "on_connect", <<>>, s1.msgno)
    ELSE Call([s EXCEPT !.state = "HTTP_STATE_MANGLED"], "on_error",
              <<"ERROR_CONNECT_FAILED">>, s.msgno)
  ELSE IF "BEV_EVENT_CONNECTED" \in what THEN Fatal(s, "assert:501")
  ELSE
    LET s1 == [s EXCEPT !.state = "HTTP_STATE_MANGLED"] IN
    IF "BEV_EVENT_WRITING" \in what THEN end_message(s1, "ERROR_WRITE_FAILED")
    ELSE IF s.state = "HTTP_STATE_IDLE"
      THEN end_message(s1, "ERROR_IDLE_CONN_TIMEDOUT")
    ELSE IF s.state \in {"HTTP_STATE_READ_FIRSTLINE", "HTTP_STATE_READ_HEADERS"}
      THEN end_message(s1, "ERROR_INCOMPLETE_HEADERS")
    ELSE IF s.state = "HTTP_STATE_READ_BODY"
      THEN IF "BEV_EVENT_EOF" \in what /\ s.msg_complete_on_eof
           THEN end_message(s1, "ERROR_NONE")
           ELSE end_message(s1, "ERROR_INCOMPLETE_BODY")
    ELSE Fatal(s1, "log_fatal:526")

http_conn_start_reading(s) ==
  [s EXCEPT !.enabled = @ \cup {"EV_READ"}, !.read_paused = FALSE]

\* --------------------------------------------------------------- write side
method_to_string(m) ==
  CASE m = "METH_GET" -> "GET"
    [] m = "METH_HEAD" -> "HEAD"
    [] m = "METH_POST" -> "POST"
    [] m = "METH_PUT" -> "PUT"
    [] m = "METH_CONNECT" -> "CONNECT"

version_to_string(v) ==
  CASE v = "HTTP_UNKNOWN" -> "HTTP/??"
    [] v = "HTTP_10" -> "HTTP/1.0"
    [] v = "HTTP_11" -> "HTTP/1.1"

\* "%d" of a status code
itoa(c) ==
  CASE c = 200 -> "200"
    [] c = 204 -> "204"
    [] c = 404 -> "404"

\* headers_dump(headers, outbuf): what it adds to the output, one line per
\* header and the blank line, counted like the input (a text and its CRLF)
headers_dump(hs) == 2 * Len(hs) + 1

\* the first line goes out with the method, the target and the version of
\* the request
http_conn_write_request(s, req) ==
  IF s.type # "HTTP_SERVER" THEN Fatal(s, "assert:639")
  ELSE [s EXCEPT
          !.outlen = @ + 2 + headers_dump(req.headers),
          !.written =
            Ptr([op |-> "http_conn_write_request",
                 arg |-> <<req.meth, req.url, req.vers>>,
                 out |-> FL(<<method_to_string(req.meth), req.url,
                              version_to_string(req.vers)>>)])]

\* the first line goes out with the version of the connection
http_conn_write_response(s, resp) ==
  IF s.type # "HTTP_CLIENT" THEN Fatal(s, "assert:658")
  ELSE [s EXCEPT
          !.outlen = @ + 2 + headers_dump(resp.headers),
          !.written =
            Ptr([op |-> "http_conn_write_response",
                 arg |-> <<resp.vers, itoa(resp.code), resp.reason>>,
                 out |-> FL(<<version_to_string(s.vers), itoa(resp.code),
                              resp.reason>>)])]

\* http_conn_write_buf(conn, buf) with n bytes in buf; out is what it returns
http_conn_write_buf(s, n) ==
  IF s.outlen + n > max_write_backlog
  THEN [s EXCEPT !.outlen = @ + n, !.wm_low = max_write_backlog \div 2,
                 !.is_choaked = TRUE,
                 !.written = Ptr([op |-> "http_conn_write_buf", arg |-> n,
                                  out |-> 0])]
  ELSE [s EXCEPT !.outlen = @ + n,
                 !.written = Ptr([op |-> "http_conn_write_buf", arg |-> n,
                                  out |-> 1])]

\* http_writecb without line 582: the connection stays choked
http_writecb_StaysChoked(s) ==
  IF s.is_choaked
  THEN Call([s EXCEPT !.wm_low = 0], "on_write_more", <<>>, s.msgno)
  ELSE IF s.outlen = 0 THEN Call(s, "on_flush", <<>>, s.msgno)
  ELSE s

http_writecb(s) ==
  IF s.is_choaked
  THEN Call([s EXCEPT !.wm_low = 0, !.is_choaked = FALSE], "on_write_more",
            <<>>, s.msgno)
  ELSE IF s.outlen = 0 THEN Call(s, "on_flush", <<>>, s.msgno)
  ELSE s

http_conn_flush(s) ==
  IF s.outlen = 0 THEN Call(s, "on_flush", <<>>, s.msgno) ELSE s

\* the transport has written k bytes of the output to the socket; it runs
\* the write callback when what is left is at or below the low watermark
bev_write(s, k) ==
  IF s.outlen - k <= s.wm_low
  THEN http_writecb([s EXCEPT !.outlen = @ - k])
  ELSE [s EXCEPT !.outlen = @ - k]

\* ------------------------------------------------------ what the peer sends
DataBytes == <<"p", "q", "r", "s">>
Data(n) == [i \in 1..n |-> Ch(DataBytes[i])]
\* a chunk of n bytes, the bytes after the first off of DataBytes
Chunk(n, off) ==
  <<Ch(Digits[n + 1]), NL>> \o [i \in 1..n |-> Ch(DataBytes[off + i])] \o <<NL>>
LastChunk == <<Ch("0"), NL, NL>>

RECURSIVE HdrLines(_)
HdrLines(hs) ==
  IF hs = <<>> THEN <<>> ELSE <<Head(hs), NL>> \o HdrLines(Tail(hs))

Msg(words, hs, body) == <<FL(words), NL>> \o HdrLines(hs) \o <<NL>> \o body

CL(n) == H("Content-Length", <<Digits[n + 1]>>)
BadCL == H("Content-Length", <<"x">>)
TEChunked == H("Transfer-Encoding", <<"chunked">>)
TEGzip == H("Transfer-Encoding", <<"gzip">>)
ConnClose == H("Connection", <<"Close">>)
ConnKeepAlive == H("Connection", <<"keep-alive">>)

\* the framing headers of a message with the bodies sent under them
Framings ==
  {<<<<>>, <<>>>>, <<<<>>, Data(1)>>, <<<<BadCL>>, Data(1)>>,
   <<<<TEGzip>>, Data(1)>>, <<<<CL(0)>>, <<>>>>,
   <<<<TEChunked>>, LastChunk>>,
   <<<<TEChunked>>, <<Ch("x"), NL>>>>,
   <<<<TEChunked, CL(1)>>, Chunk(1, 0) \o LastChunk>>,
   <<<<TEChunked, CL(0)>>, Chunk(1, 0) \o LastChunk>>}
  \cup {<<<<CL(n)>>, Data(n)>> : n \in 1..MaxLen}
  \cup {<<<<TEChunked>>, Chunk(n, 0) \o LastChunk>> : n \in 1..MaxLen}
  \cup {<<<<TEChunked>>, Chunk(1, 0) \o Chunk(n, 1) \o LastChunk>> :
           n \in 1..(MaxLen - 1)}

ConnHeaders == {<<>>, <<ConnClose>>, <<ConnKeepAlive>>}

RequestLines ==
  {<<"GET", "/", "HTTP/1.1">>, <<"GET", "/", "HTTP/1.0">>,
   <<"POST", "/", "HTTP/1.1">>, <<"POST", "/", "HTTP/1.0">>,
   <<"put", "/", "HTTP/1.1">>, <<"HEAD", "/", "HTTP/1.1">>,
   <<"CONNECT", "/", "HTTP/1.1">>, <<"BREW", "/", "HTTP/1.1">>,
   <<"GET", "/", "HTTP/2.0">>, <<"GET", "/">>}

ResponseLines ==
  {<<"HTTP/1.1", "200", "OK">>, <<"HTTP/1.0", "200", "OK">>,
   <<"HTTP/1.1", "204", "No Content">>, <<"HTTP/1.1", "304", "Not Modified">>,
   <<"HTTP/1.1", "100", "Continue">>, <<"HTTP/1.1", "99", "Low">>,
   <<"HTTP/2.0", "200", "OK">>, <<"HTTP/1.1", "200">>}

FirstLines(t) == IF t = "HTTP_CLIENT" THEN RequestLines ELSE ResponseLines

\* the first lines sent with every framing and Connection header
MainLines(t) ==
  IF t = "HTTP_CLIENT"
  THEN {<<"POST", "/", "HTTP/1.1">>, <<"POST", "/", "HTTP/1.0">>}
  ELSE {<<"HTTP/1.1", "200", "OK">>, <<"HTTP/1.0", "200", "OK">>}

\* the first message on the wire
FirstMsgs(t) ==
  {Msg(w, c \o f[1], f[2]) : w \in MainLines(t), c \in ConnHeaders, f \in Framings}
  \cup {Msg(w, c, <<>>) : w \in FirstLines(t), c \in ConnHeaders}
  \cup {Msg(w, <<CL(1)>>, Data(1)) : w \in FirstLines(t)}

\* the messages that may follow it
FollowMsgs(t) ==
  IF t = "HTTP_CLIENT"
  THEN {Msg(<<"POST", "/", "HTTP/1.0">>, <<>>, Data(1)),
        Msg(<<"POST", "/", "HTTP/1.1">>, <<CL(1)>>, Data(1))}
  ELSE {Msg(<<"HTTP/1.0", "200", "OK">>, <<>>, Data(1)),
        Msg(<<"HTTP/1.1", "200", "OK">>, <<CL(1)>>, Data(1))}

RECURSIVE Follow(_, _)
Follow(t, n) ==
  IF n = 0 THEN {<<>>}
  ELSE {<<>>} \cup {m \o r : m \in FollowMsgs(t), r \in Follow(t, n - 1)}

Wires(t) == {m \o r : m \in FirstMsgs(t), r \in Follow(t, MaxFollow)}

\* ----------------------------------------------------------------- actions
\* http_conn_new(base, sock, type, cbs, cbarg): the structure is zeroed, and a
\* connection made over an open socket begins its first message at once.  A
\* connection to a client is made over an accepted socket; a connection to a
\* server is made with sock = -1 and connected afterwards, as main does.
New(t) ==
  [state |-> "HTTP_STATE_IDLE", vers |-> "HTTP_UNKNOWN", te |-> "TE_IDENTITY",
   type |-> t, has_body |-> FALSE, read_paused |-> FALSE,
   msg_complete_on_eof |-> FALSE, persistent |-> FALSE, data_remaining |-> 0,
   firstline |-> NULL, headers |-> NULL, is_choaked |-> FALSE,
   enabled |-> {"EV_WRITE"}, inbuf |-> <<>>, outlen |-> 0, wm_low |-> 0,
   written |-> NULL, log |-> <<>>, msgno |-> 0, fatal |-> "none"]

Created(t) ==
  /\ rcvd = <<>>
  /\ pc = "wait"
  /\ nwrites = 0
  /\ LET c == IF t = "HTTP_CLIENT" THEN begin_message(New(t))
              ELSE [New(t) EXCEPT !.state = "HTTP_STATE_NEW"]
     IN /\ state = c.state /\ vers = c.vers /\ te = c.te /\ type = c.type
        /\ has_body = c.has_body /\ read_paused = c.read_paused
        /\ msg_complete_on_eof = c.msg_complete_on_eof
        /\ persistent = c.persistent /\ data_remaining = c.data_remaining
        /\ firstline = c.firstline /\ headers = c.headers
        /\ is_choaked = c.is_choaked /\ enabled = c.enabled
        /\ inbuf = c.inbuf /\ outlen = c.outlen /\ wm_low = c.wm_low
        /\ written = c.written /\ log = c.log
        /\ msgno = c.msgno /\ fatal = c.fatal

Init ==
  \E t \in {"HTTP_CLIENT", "HTTP_SERVER"} : wire \in Wires(t) /\ Created(t)

Running == fatal = "none" /\ pc = "wait"

IsError(e, kind) == e.cb = "on_error" /\ e.arg = <<kind>>

ConnectFailed ==
  \E i \in 1..Len(log) : IsError(log[i], "ERROR_CONNECT_FAILED")

\* http_conn_connect
Connect ==
  /\ Running /\ state = "HTTP_STATE_NEW"
  /\ state' = "HTTP_STATE_CONNECTING"
  /\ UNCHANGED <<vers, te, type, has_body, read_paused, msg_complete_on_eof,
                 persistent, data_remaining, firstline, headers, is_choaked,
                 enabled, inbuf, outlen, wm_low, written, nwrites, wire, rcvd,
                 pc, log, msgno, fatal>>

\* the transport reports the outcome of the connect
ConnectEvent ==
  /\ Running /\ state = "HTTP_STATE_CONNECTING"
  /\ \E what \in {{"BEV_EVENT_CONNECTED"}, {"BEV_EVENT_ERROR"}} :
       Becomes(http_errorcb(Conn, what))
  /\ UNCHANGED <<wire, rcvd, pc, nwrites>>

\* the transport has read n more symbols and calls http_readcb, which enters
\* process_inbuf
ReadEvent ==
  /\ Running /\ "EV_READ" \in enabled /\ wire # <<>>
  /\ \E n \in 1..Len(wire) :
       /\ wire' = SubSeq(wire, n + 1, Len(wire))
       /\ inbuf' = inbuf \o SubSeq(wire, 1, n)
       /\ rcvd' = rcvd \o SubSeq(wire, 1, n)
  /\ pc' = "enter"
  /\ UNCHANGED <<state, vers, te, type, has_body, read_paused,
                 msg_complete_on_eof, persistent, data_remaining, firstline,
                 headers, is_choaked, enabled, outlen, wm_low, written, nwrites,
                 log, msgno, fatal>>

\* process_inbuf: one pass of the loop body, then the loop condition
Step ==
  /\ fatal = "none" /\ pc \in {"enter", "resume", "again"}
  /\ \E pause \in BOOLEAN :
       LET r == process_one_message(Conn, pause) IN
       /\ Becomes(r)
       /\ pc' = IF r.fatal = "none" /\ LoopAgain(r) THEN "again" ELSE "wait"
  /\ UNCHANGED <<wire, rcvd, nwrites>>

\* what the transport reports on an open connection
TransportEvents ==
  {{"BEV_EVENT_EOF", "BEV_EVENT_READING"},
   {"BEV_EVENT_TIMEOUT", "BEV_EVENT_READING"},
   {"BEV_EVENT_ERROR", "BEV_EVENT_WRITING"}}

\* the event callback runs for an event of an enabled direction; nothing
\* more arrives after an end of file
Report(what) ==
  /\ IF "BEV_EVENT_READING" \in what THEN "EV_READ" \in enabled
     ELSE "EV_WRITE" \in enabled
  /\ Becomes(http_errorcb(Conn, what))
  /\ wire' = IF "BEV_EVENT_EOF" \in what THEN <<>> ELSE wire

\* the transport reports EOF, a timeout or a write error
ErrorEvent ==
  /\ Running /\ ~ConnectFailed
  /\ state \notin {"HTTP_STATE_NEW", "HTTP_STATE_CONNECTING"}
  /\ \E what \in TransportEvents : Report(what)
  /\ UNCHANGED <<rcvd, pc, nwrites>>

\* the owner pauses reads from the event loop
StopReading ==
  /\ Running /\ ~read_paused
  /\ Becomes(http_conn_stop_reading(Conn))
  /\ UNCHANGED <<wire, rcvd, pc, nwrites>>

\* the owner resumes reads; queued input is processed inline
StartReading ==
  /\ Running /\ read_paused
  /\ Becomes(http_conn_start_reading(Conn))
  /\ pc' = IF Len(inbuf) > 0 THEN "resume" ELSE "wait"
  /\ UNCHANGED <<wire, rcvd, nwrites>>

\* ---- the owner's write operations and the transport's writes
WriteSizes == {1, max_write_backlog \div 2, max_write_backlog}

Requests ==
  [meth : {"METH_POST"}, url : {"/"},
   vers : {"HTTP_10", "HTTP_11"}, headers : {<<>>}]

Responses ==
  [vers : {"HTTP_10", "HTTP_11"}, code : {200}, reason : {"OK"},
   headers : {<<>>}]

\* http_conn_write_buf(conn, buf): the owner writes n body bytes
WriteBuf ==
  /\ Running /\ nwrites < MaxWrites
  /\ \E n \in WriteSizes :
       Becomes(http_conn_write_buf(Conn, n))
  /\ nwrites' = nwrites + 1
  /\ UNCHANGED <<wire, rcvd, pc>>

\* the owner writes a request to a server, or a response to a client
WriteMessage ==
  /\ Running /\ nwrites < MaxWrites
  /\ IF type = "HTTP_SERVER"
     THEN \E req \in Requests :
            Becomes(http_conn_write_request(Conn, req))
     ELSE \E resp \in Responses :
            Becomes(http_conn_write_response(Conn, resp))
  /\ nwrites' = nwrites + 1
  /\ UNCHANGED <<wire, rcvd, pc>>

\* http_conn_flush(conn)
Flush ==
  /\ Running /\ nwrites < MaxWrites
  /\ Becomes(http_conn_flush(Conn))
  /\ nwrites' = nwrites + 1
  /\ UNCHANGED <<wire, rcvd, pc>>

\* what a write of the transport leaves in the output: nothing, the low
\* watermark of a choked connection, or one byte more than that
DrainLevels == {0, max_write_backlog \div 2, max_write_backlog \div 2 + 1}

\* the transport writes part or all of the output to a connected socket
Drain ==
  /\ Running /\ "EV_WRITE" \in enabled /\ outlen > 0 /\ ~ConnectFailed
  /\ state \notin {"HTTP_STATE_NEW", "HTTP_STATE_CONNECTING"}
  /\ \E left \in DrainLevels :
       left < outlen /\ Becomes(bev_write(Conn, outlen - left))
  /\ UNCHANGED <<wire, rcvd, pc, nwrites>>

Next ==
  \/ Connect
  \/ ConnectEvent
  \/ ReadEvent
  \/ Step
  \/ ErrorEvent
  \/ StopReading
  \/ StartReading

Spec == Init /\ [][Next]_vars

\* the same connection with the owner writing: the peer sends one short
\* message
WiresW(t) ==
  IF t = "HTTP_CLIENT"
  THEN {Msg(<<"GET", "/", "HTTP/1.1">>, <<>>, <<>>),
        Msg(<<"GET", "/", "HTTP/1.0">>, <<>>, <<>>)}
  ELSE {Msg(<<"HTTP/1.1", "200", "OK">>, <<CL(1)>>, Data(1)),
        Msg(<<"HTTP/1.0", "200", "OK">>, <<>>, Data(1))}

InitW ==
  \E t \in {"HTTP_CLIENT", "HTTP_SERVER"} : wire \in WiresW(t) /\ Created(t)

NextW ==
  \/ Next
  \/ WriteBuf
  \/ WriteMessage
  \/ Flush
  \/ Drain

SpecW == InitW /\ [][NextW]_vars

\* a connection to a client whose peer sends nothing while the owner writes;
\* the event loop goes on, so the transport keeps writing what is buffered
\* while writes are enabled, and neither the owner nor the peer is obliged
\* to do anything
InitL == wire = <<>> /\ Created("HTTP_CLIENT")

NextL ==
  \/ WriteBuf
  \/ WriteMessage
  \/ Flush
  \/ Drain
  \/ ErrorEvent
  \/ StopReading
  \/ StartReading

SpecWLive == InitL /\ [][NextL]_vars /\ WF_vars(Drain)

\* ------------------------------------------------------------------ claims
IsDelivery(e) == e.cb \in {"on_client_request", "on_server_response"}
IsTerminal(e) == e.cb \in {"on_error", "on_msg_complete"}
TransportErrors ==
  {"ERROR_CONNECT_FAILED", "ERROR_IDLE_CONN_TIMEDOUT", "ERROR_INCOMPLETE_HEADERS",
   "ERROR_INCOMPLETE_BODY", "ERROR_WRITE_FAILED"}

\* C1: a POST or PUT request whose headers give neither a usable
\* Content-Length nor chunked encoding is reported with
\* on_error(ClientPostWithoutLength), and on_client_request is never invoked
\* for that message.
C1_PostWithoutLengthNotDelivered ==
  /\ (type = "HTTP_CLIENT" /\ state = "HTTP_STATE_READ_BODY"
      /\ te = "TE_IDENTITY" /\ data_remaining < 0)
       => \E i \in 1..Len(log) :
            /\ IsError(log[i], "ERROR_CLIENT_POST_WITHOUT_LENGTH")
            /\ log[i].msg = msgno
  /\ \A i, j \in 1..Len(log) :
       (IsError(log[i], "ERROR_CLIENT_POST_WITHOUT_LENGTH")
        /\ log[j].msg = log[i].msg) => log[j].cb # "on_client_request"

\* C2: at every on_error call, whatever the error kind, the connection is
\* Mangled and the transport's read and write events are disabled.
C2_ErrorSeesMangledAndDisabled ==
  \A i \in 1..Len(log) :
    log[i].cb = "on_error"
      => log[i].st = "HTTP_STATE_MANGLED" /\ log[i].en = {}

\* C3: the callbacks of one message come in the order: at most one delivery,
\* then on_read_body calls, then exactly one terminal callback; nothing of the
\* message follows its terminal callback, and a message that has been
\* followed by another has had its terminal callback.
C3_CallbackOrder ==
  /\ \A i, j \in 1..Len(log) :
       (i < j /\ log[i].msg = log[j].msg /\ log[j].cb # "on_connect"
        /\ log[i].cb # "on_connect")
         => ~IsTerminal(log[i]) /\ ~IsDelivery(log[j])
  /\ \A m \in 1..(msgno - 1) :
       \E i \in 1..Len(log) : log[i].msg = m /\ IsTerminal(log[i])

\* the persistence the message would have without its Connection header
OtherwisePersistent(i) ==
  /\ ~log[i].eof
  /\ \A j \in 1..i : IsDelivery(log[j]) => log[j].arg[IF type = "HTTP_CLIENT" THEN 3 ELSE 1] = "HTTP_11"

\* C4: a message with "Connection: close" (in any letter case) is never
\* persistent, and a Connection header of any other value does not make an
\* otherwise persistent HTTP/1.1 message non-persistent.
C4_ConnectionClose ==
  \A i \in 1..Len(log) :
    (IsDelivery(log[i]) /\ headers_find(log[i].hdrs, "connection") # NULL)
      => IF strcaseeq(Word(Deref(headers_find(log[i].hdrs, "connection"))), "close")
         THEN ~log[i].pers
         ELSE OtherwisePersistent(i) => log[i].pers

\* C5: in every reachable state, persistent implies that the negotiated
\* version is HTTP/1.1 and that completeOnEof is false.
C5_PersistentImpliesFramed ==
  persistent => vers = "HTTP_11" /\ ~msg_complete_on_eof

\* the input holds only the beginning of a first line, of a chunk-size line or
\* of the line after the last chunk
IncompleteUnitOnly ==
  /\ inbuf # <<>> /\ ~HasLine(inbuf)
  /\ \/ state = "HTTP_STATE_READ_FIRSTLINE"
     \/ state = "HTTP_STATE_READ_BODY" /\ te = "TE_CHUNKED" /\ data_remaining <= 0

\* C6: when the input holds only an incomplete protocol unit the read loop
\* returns to wait for more bytes: it does not decide to go round again.
C6_LoopReturnsOnIncompleteUnit ==
  IncompleteUnitOnly => pc # "again"

\* ---- what was received, read back independently of the engine
\* the header block of the first message ends at its blank line
BlankAt(buf) ==
  CHOOSE i \in 2..Len(buf) :
    /\ buf[i] = NL /\ buf[i - 1] = NL
    /\ \A j \in 2..(i - 1) : ~(buf[j] = NL /\ buf[j - 1] = NL)
\* what follows the header block of the first message
Body1 == SubSeq(rcvd, BlankAt(rcvd) + 1, Len(rcvd))

IsPrefix(a, b) == Len(a) <= Len(b) /\ a = SubSeq(b, 1, Len(a))

\* a chunked body read by its grammar: chunks of a one-digit positive size,
\* then the chunk of size 0 and its terminating line
RECURSIVE RefDechunk(_)
RefDechunk(b) ==
  IF Len(b) < 3 \/ b[1].k # "c" \/ b[2] # NL \/ DigitVal(b[1].n, 16) < 0
  THEN [ok |-> FALSE, data |-> <<>>, used |-> 0]
  ELSE IF DigitVal(b[1].n, 16) = 0
    THEN [ok |-> b[3] = NL, data |-> <<>>, used |-> 3]
  ELSE LET n == DigitVal(b[1].n, 16) IN
    IF Len(b) < n + 3 \/ b[n + 3] # NL
       \/ \E i \in 3..(n + 2) : b[i].k # "c"
    THEN [ok |-> FALSE, data |-> <<>>, used |-> 0]
    ELSE LET r == RefDechunk(SubSeq(b, n + 4, Len(b))) IN
         [ok |-> r.ok, data |-> SubSeq(b, 3, n + 2) \o r.data,
          used |-> n + 3 + r.used]

\* the bytes handed to on_read_body for message m, in order
RECURSIVE BodyFrom(_, _)
BodyFrom(lg, m) ==
  IF lg = <<>> THEN <<>>
  ELSE IF Head(lg).cb = "on_read_body" /\ Head(lg).msg = m
    THEN Head(lg).arg \o BodyFrom(Tail(lg), m)
  ELSE BodyFrom(Tail(lg), m)
BodyBytes(m) == BodyFrom(log, m)

Delivered(m) == \E i \in 1..Len(log) : IsDelivery(log[i]) /\ log[i].msg = m
DeliveryOf(m) == log[CHOOSE i \in 1..Len(log) : IsDelivery(log[i]) /\ log[i].msg = m]
Completed(m) ==
  \E i \in 1..Len(log) : log[i].cb = "on_msg_complete" /\ log[i].msg = m
Failed(m) == \E i \in 1..Len(log) : log[i].cb = "on_error" /\ log[i].msg = m
\* the loop has returned with reads not paused: all that was received is read
Settled == pc = "wait" /\ ~read_paused

\* the first message has a chunked body, and the whole of a well-formed one
\* has been received
ChunkedBody1 ==
  /\ Delivered(1) /\ DeliveryOf(1).body /\ DeliveryOf(1).te = "TE_CHUNKED"
  /\ RefDechunk(Body1).ok

\* C7: for a well-formed chunked body c1..cn, 0, CRLF the bytes handed to
\* on_read_body are c1..cn in order; the message is not ended by a chunk's
\* count reaching zero but by the zero-length chunk, with one
\* on_msg_complete and no ChunkParseFailed; and once the whole body has been
\* read the message has completed.
C7_ChunkedBodyDecoded ==
  ChunkedBody1 =>
    /\ IsPrefix(BodyBytes(1), Bytes(RefDechunk(Body1).data))
    /\ \A i \in 1..Len(log) :
         log[i].msg = 1 => ~IsError(log[i], "ERROR_CHUNK_PARSE_FAILED")
    /\ Cardinality({i \in 1..Len(log) :
                      log[i].msg = 1 /\ log[i].cb = "on_msg_complete"}) <= 1
    /\ Completed(1) => BodyBytes(1) = Bytes(RefDechunk(Body1).data)
    /\ (Settled /\ ~Failed(1)) => Completed(1)

\* a body of two chunks has been decoded and the message has completed
C7_Witness ==
  /\ ChunkedBody1 /\ Completed(1) /\ ~Failed(1)
  /\ Len(BodyBytes(1)) = MaxLen
  /\ \E i \in 4..(Len(Body1) - 1) :
       /\ Body1[i - 1] = NL /\ Body1[i].k = "c" /\ Body1[i + 1] = NL
       /\ Body1[i].n # "0"

\* the first message has a body of Content-Length N > 0
LengthBody1 ==
  /\ Delivered(1) /\ DeliveryOf(1).body /\ DeliveryOf(1).te = "TE_IDENTITY"
  /\ DeliveryOf(1).rem > 0

\* C8: for a body of Content-Length N > 0, however it is split over
\* deliveries, on_read_body gets the first N body bytes and no more; the
\* message completes in the step in which the N-th byte is handed over; and
\* what follows the N-th byte stays in the input for the next message.
C8_ContentLengthBody ==
  LengthBody1 =>
    LET N == DeliveryOf(1).rem IN
    /\ Len(BodyBytes(1)) <= N
    /\ IsPrefix(BodyBytes(1), Bytes(Body1))
    /\ Completed(1) => Len(BodyBytes(1)) = N
    /\ Len(BodyBytes(1)) = N => Completed(1)
    /\ (Completed(1) /\ (\/ state = "HTTP_STATE_IDLE" /\ msgno = 2
                         \/ state = "HTTP_STATE_MANGLED" /\ msgno = 1))
         => inbuf = SubSeq(Body1, N + 1, Len(Body1))

HasHeader(hs, h) == \E k \in 1..Len(hs) : hs[k] = h

\* C9: a response with Content-Length: 0 and no chunked encoding is
\* delivered, gets no on_read_body, and completes right after the delivery,
\* in the same step.
C9_ZeroLengthResponse ==
  \A i \in 1..Len(log) :
    (log[i].cb = "on_server_response" /\ HasHeader(log[i].hdrs, CL(0))
     /\ ~HasHeader(log[i].hdrs, TEChunked))
      => /\ BodyBytes(log[i].msg) = <<>>
         /\ \A j \in 1..Len(log) :
              log[j].msg = log[i].msg => log[j].cb # "on_read_body"
         /\ i < Len(log) /\ log[i + 1].cb = "on_msg_complete"
                         /\ log[i + 1].msg = log[i].msg

\* the version of a delivered request or response
VersionOf(d) == IF d.cb = "on_client_request" THEN d.arg[3] ELSE d.arg[1]

\* an HTTP/1.1 message with no Connection header whose length is known
KnownLength11(d) ==
  /\ VersionOf(d) = "HTTP_11"
  /\ \A k \in 1..Len(d.hdrs) : ~strcaseeq(d.hdrs[k].n, "Connection")
  /\ ~d.body \/ d.te = "TE_CHUNKED" \/ d.rem >= 0

\* C10: when an HTTP/1.1 message with no Connection header and a known body
\* length completes, on_msg_complete sees persistent set, state Idle and
\* reads and writes enabled, with empty pending headers and no pending first
\* line; and a following message already in the input buffer is delivered
\* as the next message before the read loop returns.
C10_PersistentRearm ==
  /\ \A j \in 1..Len(log) :
       (log[j].cb = "on_msg_complete" /\ Delivered(log[j].msg)
        /\ KnownLength11(DeliveryOf(log[j].msg)))
         => /\ log[j].pers
            /\ log[j].st = "HTTP_STATE_IDLE"
            /\ log[j].en = {"EV_READ", "EV_WRITE"}
            /\ (j = Len(log) /\ state = "HTTP_STATE_IDLE")
                 => headers = Ptr(<<>>) /\ firstline = NULL
            /\ (log[j].next /\ pc = "wait")
                 => Delivered(log[j].msg + 1)

\* a second message has been delivered after such a first one, on a
\* connection that was created open and never connected
C10_Witness ==
  /\ Delivered(1) /\ KnownLength11(DeliveryOf(1)) /\ pc = "wait"
  /\ \A i \in 1..Len(log) : log[i].cb # "on_connect"
  /\ \E j \in 1..(Len(log) - 1) :
       /\ log[j].cb = "on_msg_complete" /\ log[j].msg = 1
       /\ log[j].next
       /\ IsDelivery(log[j + 1]) /\ log[j + 1].msg = 2

\* ---- the write side
\* this step makes the callback cb, once
Calls(cb) ==
  /\ Len(log') = Len(log) + 1
  /\ log'[Len(log')].cb = cb

\* this step is a body write of the owner
BodyWritten ==
  /\ nwrites' = nwrites + 1
  /\ written' # NULL /\ Deref(written').op = "http_conn_write_buf"

\* C11: a body write that makes the buffered output exceed 50 KiB sets
\* choked, arms the low watermark at 25 KiB and returns 0 (not fully
\* accepted), and choked is set by nothing else; on_write_more is invoked
\* only on a choked connection; and a choked connection gets on_write_more
\* exactly at the first write of the transport that leaves the output at or
\* below 25 KiB, which clears choked, and choked is cleared by nothing else.
C11_ChokeAndWriteMore ==
  [][/\ (BodyWritten /\ outlen' > 50 * 1024)
          => /\ is_choaked' /\ wm_low' = 25 * 1024
             /\ Deref(written').out = 0
     /\ (is_choaked' /\ ~is_choaked) => (BodyWritten /\ outlen' > 50 * 1024)
     /\ Calls("on_write_more") => (is_choaked /\ ~is_choaked')
     /\ (is_choaked /\ outlen' < outlen)
          => IF outlen' <= 25 * 1024
             THEN Calls("on_write_more") /\ ~is_choaked'
             ELSE log' = log /\ is_choaked'
     /\ (is_choaked /\ ~is_choaked') => Calls("on_write_more")
    ]_vars

\* a choked connection has been told to write more when its output fell to
\* the low watermark, with output still buffered
C11_Witness ==
  /\ ~is_choaked /\ outlen = 25 * 1024 /\ wm_low = 0
  /\ written # NULL /\ Deref(written).op = "http_conn_write_buf"
  /\ Deref(written).out = 0
  /\ Len(log) > 0 /\ log[Len(log)].cb = "on_write_more"

\* the deliveries and body callbacks made so far
Handed == SelectSeq(log, LAMBDA e : IsDelivery(e) \/ e.cb = "on_read_body")

\* C12: while reads stay paused no on_read_body and no request or response
\* delivery is made and no input is consumed; the resume itself consumes
\* nothing and, when input is buffered, goes on to process it at once; and
\* of a body nothing is lost, repeated or reordered: what has been handed
\* over, followed by what is still buffered, is what was received (body
\* without transfer encoding), or is a prefix of the chunks' bytes and all of
\* them once the read loop has returned with reads not paused (chunked).
C12_PauseResume ==
  /\ [][/\ (read_paused /\ read_paused')
             => (inbuf' = inbuf /\ Handed' = Handed)
        /\ (read_paused /\ ~read_paused')
             => /\ inbuf' = inbuf /\ Handed' = Handed
                /\ inbuf # <<>> => pc' = "resume"
       ]_vars
  /\ [](/\ (msgno = 1 /\ state = "HTTP_STATE_READ_BODY" /\ te = "TE_IDENTITY")
             => BodyBytes(1) \o Bytes(inbuf) = Bytes(Body1)
        /\ ChunkedBody1
             => /\ IsPrefix(BodyBytes(1), Bytes(RefDechunk(Body1).data))
                /\ (Settled /\ fatal = "none" /\ ~Failed(1))
                     => BodyBytes(1) = Bytes(RefDechunk(Body1).data))

\* reads were paused inside the on_read_body of the first chunk with the
\* second chunk already buffered, and the owner has now resumed them
C12_Witness ==
  /\ pc = "resume" /\ ~read_paused
  /\ state = "HTTP_STATE_READ_BODY" /\ ChunkedBody1
  /\ BodyBytes(1) # <<>> /\ Len(BodyBytes(1)) < Len(RefDechunk(Body1).data)
  /\ inbuf # <<>>

\* the last write was that of a request or of a response
MessageWritten ==
  /\ written # NULL
  /\ Deref(written).op \in {"http_conn_write_request", "http_conn_write_response"}

\* the request or response a receiver builds from the first line written
ParsedBack ==
  LET c == [Conn EXCEPT !.firstline = Ptr(<<Deref(written).out>>),
                        !.headers = Ptr(<<>>)]
  IN IF Deref(written).op = "http_conn_write_request"
     THEN build_request(c) ELSE build_response(c)

\* C13: the first line written for a request or a response of version
\* HTTP/1.0 or HTTP/1.1 parses back to the same fields (method, url and
\* version; version, status code and reason), whatever version the
\* connection has negotiated when it is written.
C13_FirstLineRoundTrip ==
  MessageWritten =>
    /\ ParsedBack # NULL
    /\ Deref(ParsedBack).words = Deref(written).arg

\* a complete, non-empty line that is no hexadecimal number
BadSizeLine(b) ==
  /\ HasLine(b) /\ ReadLine(b) # <<>>
  /\ \E i \in 1..Len(ReadLine(b)) :
       \/ ReadLine(b)[i].k # "c"
       \/ ReadLine(b)[i].n \notin {"0", "1", "2", "3", "4", "5", "6", "7", "8",
                                   "9", "a", "b", "c", "d", "e", "f"}

ChunkParseFailures ==
  {i \in 1..Len(log) : IsError(log[i], "ERROR_CHUNK_PARSE_FAILED")}

TransportFailed(m) ==
  \E i \in 1..Len(log) :
    log[i].cb = "on_error" /\ log[i].msg = m /\ log[i].arg[1] \in TransportErrors

\* C14: on_error(ChunkParseFailed) is made at most once on a connection and
\* no on_read_body or on_msg_complete follows it, whatever input follows the
\* bad line; and when the first chunk-size line of a chunked body is a
\* non-empty line that is no hexadecimal number, the error has been reported
\* once the read loop has returned with reads not paused (no transport error
\* having ended the message first).
C14_BadChunkSize ==
  /\ Cardinality(ChunkParseFailures) <= 1
  /\ \A i \in ChunkParseFailures : \A j \in (i + 1)..Len(log) :
       log[j].cb \notin {"on_read_body", "on_msg_complete"}
  /\ (Delivered(1) /\ DeliveryOf(1).body /\ DeliveryOf(1).te = "TE_CHUNKED"
      /\ BadSizeLine(Body1) /\ Settled /\ ~TransportFailed(1))
       => \E i \in ChunkParseFailures : log[i].msg = 1

\* a bad chunk-size line has been reported, and a further message had been
\* received after it
C14_Witness ==
  /\ ChunkParseFailures # {}
  /\ Delivered(1) /\ BadSizeLine(Body1)
  /\ Len(AfterLine(Body1)) > 0

\* the write-side notifications made so far
WriteSide == SelectSeq(log, LAMBDA e : e.cb \in {"on_write_more", "on_flush"})

\* the output has drained to empty in a write callback that made
\* on_write_more, and no on_flush has been made since
DrainedUnflushed ==
  /\ outlen = 0
  /\ WriteSide # <<>> /\ WriteSide[Len(WriteSide)].cb = "on_write_more"

\* C15: whenever the output has drained to empty, on_flush is eventually
\* invoked, also when the output drained to empty in the write callback that
\* cleared a choked connection.
C15_FlushAfterDrain ==
  [](DrainedUnflushed
       => <>(WriteSide # <<>> /\ WriteSide[Len(WriteSide)].cb = "on_flush"))

\* C16: Mangled is terminal: once the connection state is Mangled, no step
\* (a transport event, or a pause, resume, write or flush of the owner) moves
\* it to another state or enables a transport event that was disabled.
C16_MangledTerminal ==
  [][state = "HTTP_STATE_MANGLED"
       => /\ state' = "HTTP_STATE_MANGLED"
          /\ enabled' \subseteq enabled]_vars

\* the status codes of responses that never have a body
NoBodyCodes == (100..199) \cup {204, 205, 304}

\* on a connection reading requests has_body is set only for POST and PUT
RequestBodyByMethod ==
  \A i \in 1..Len(log) :
    log[i].cb = "on_client_request"
      => (log[i].body => log[i].arg[1] \in {"METH_POST", "METH_PUT"})

\* on a connection reading responses has_body is clear exactly for the
\* status codes without a body and for Content-Length: 0
ResponseBodyByCode ==
  \A i \in 1..Len(log) :
    log[i].cb = "on_server_response"
      => (~log[i].body <=> (\/ atoi(log[i].arg[2]) \in NoBodyCodes
                            \/ HasHeader(log[i].hdrs, CL(0))))

\* a message delivered with has_body clear gets no on_read_body and
\* completes right after the delivery
NoBodyEndsAtDelivery ==
  \A i \in 1..Len(log) :
    (IsDelivery(log[i]) /\ ~log[i].body)
      => /\ \A j \in 1..Len(log) :
              log[j].msg = log[i].msg => log[j].cb # "on_read_body"
         /\ i < Len(log) /\ log[i + 1].cb = "on_msg_complete"
                         /\ log[i + 1].msg = log[i].msg

\* C17: has_body is set by role: for requests only for POST and PUT; for
\* responses it is clear exactly for the codes 100-199, 204, 205 and 304 or
\* when Content-Length is 0; and a message with has_body clear ends right
\* after its delivery with no on_read_body call.
C17_HasBodyByRole ==
  RequestBodyByMethod /\ ResponseBodyByCode /\ NoBodyEndsAtDelivery

\* a delivered response that has a body, is not chunked, and carries a
\* Content-Length that get_int rejects
MalformedLength(d) ==
  /\ d.cb = "on_server_response" /\ d.body /\ d.te # "TE_CHUNKED"
  /\ headers_find(d.hdrs, "content-length") # NULL
  /\ get_int(Deref(headers_find(d.hdrs, "content-length")), 10) < 0

\* C18: a non-chunked response whose Content-Length is malformed is framed
\* like one without a Content-Length: msg_complete_on_eof is set, persistent
\* is clear, and an end of file in its body is no ERROR_INCOMPLETE_BODY.
C18_MalformedLengthAsNone ==
  \A i \in 1..Len(log) :
    MalformedLength(log[i])
      => /\ log[i].eof /\ ~log[i].pers
         /\ \A j \in 1..Len(log) :
              log[j].msg = log[i].msg
                => ~IsError(log[j], "ERROR_INCOMPLETE_BODY")

\* the step makes exactly one more callback: on_error with that error
ReportsError(kind) ==
  /\ Len(log') = Len(log) + 1
  /\ IsError(log'[Len(log')], kind)

\* the step makes exactly one more callback: on_msg_complete
ReportsComplete ==
  /\ Len(log') = Len(log) + 1
  /\ log'[Len(log')].cb = "on_msg_complete" /\ log'[Len(log')].msg = msgno

\* what the owner is told of an end of file, a timeout or a write failure
\* that arrives in the present state
Mapped(what) ==
  IF "BEV_EVENT_WRITING" \in what
  THEN ReportsError("ERROR_WRITE_FAILED")
  ELSE CASE state = "HTTP_STATE_IDLE"
              -> ReportsError("ERROR_IDLE_CONN_TIMEDOUT")
         [] state \in {"HTTP_STATE_READ_FIRSTLINE", "HTTP_STATE_READ_HEADERS"}
              -> ReportsError("ERROR_INCOMPLETE_HEADERS")
         [] state = "HTTP_STATE_READ_BODY"
              -> IF "BEV_EVENT_EOF" \in what /\ msg_complete_on_eof
                 THEN ReportsComplete
                 ELSE ReportsError("ERROR_INCOMPLETE_BODY")
         [] OTHER -> TRUE

\* the body being read has no length: it is neither chunked nor counted
UnknownLength ==
  /\ state = "HTTP_STATE_READ_BODY"
  /\ te # "TE_CHUNKED" /\ data_remaining < 0

\* the step completes the message being read
Completes ==
  /\ Len(log') > Len(log)
  /\ log'[Len(log')].cb = "on_msg_complete" /\ log'[Len(log')].msg = msgno

\* C19: an end of file or a timeout is reported by the state it arrives in:
\* Idle gives ERROR_IDLE_CONN_TIMEDOUT, ReadFirstLine and ReadHeaders give
\* ERROR_INCOMPLETE_HEADERS, ReadBody gives ERROR_INCOMPLETE_BODY, but an end
\* of file in ReadBody with msg_complete_on_eof set gives on_msg_complete; a
\* write failure gives ERROR_WRITE_FAILED in every state; and a body of
\* unknown length is completed by no step but that end of file.
C19_TransportEventMapping ==
  [][/\ \A what \in TransportEvents :
          (ErrorEvent /\ Report(what)) => Mapped(what)
     /\ (UnknownLength /\ Completes)
          => /\ msg_complete_on_eof
             /\ ErrorEvent /\ Report({"BEV_EVENT_EOF", "BEV_EVENT_READING"})]_vars

\* an end of file has completed a message of unknown length after bytes of
\* its body were handed over
C19_Witness ==
  /\ log # <<>> /\ wire = <<>>
  /\ LET e == log[Len(log)] IN
       /\ e.cb = "on_msg_complete" /\ e.st = "HTTP_STATE_MANGLED"
       /\ e.eof /\ e.rem < 0 /\ e.te # "TE_CHUNKED"
       /\ BodyBytes(e.msg) # <<>>

\* C20: the assertions of begin_message (no pending first line, no pending
\* headers, reads not paused) hold every time a message begins, also when
\* the owner pauses reads inside the callback that delivers the last unit
\* of a persistent message.
C20_BeginMessageAssertions ==
  fatal \notin {"assert:140", "assert:141"}

\* C21: the read loop never processes input while the connection is in
\* state Mangled or Connecting: the invalid-state branch of
\* process_one_message is never taken, also when input is left in the buffer
\* after a message ended with an error or ended a non-persistent connection.
C21_NoProcessingWhenMangled ==
  fatal # "log_fatal:553"

====
